---- MODULE Spec2Model ----
(* A model of flask-hyperschema (hyperschema/hypermedia.py): the schema      *)
(* store with its repoze.lru cache, the consumes and produces wrappers, the  *)
(* schema resource and the error handlers.                                   *)
EXTENDS Integers, Sequences, FiniteSets, TLC

(***************************************************************************)
(* Bounds of the model.                                                    *)
(***************************************************************************)
\* longest list request.accept_mimetypes.values() yields
MaxAccept == 3
\* the schema_cache_size the HyperMedia object is constructed with
CacheSize == 2

(***************************************************************************)
(* Values.                                                                 *)
(***************************************************************************)

MIME_JSON == "application/json"
MIME_TEST == "application/vnd.test+json"
MIME_UNSUPPORTED == "application/unsupported+json"
MIME_FORM_URL_ENC == "application/x-www-form-urlencoded"
WILDCARD == "*/*"

SCHEMA_TEST == "schema-test"

\* what an Accept header can name
AcceptValues == {WILDCARD, MIME_TEST, MIME_JSON, MIME_UNSUPPORTED}

RECURSIVE SeqsUpTo(_, _)
SeqsUpTo(S, n) ==
    IF n = 0 THEN {<<>>}
    ELSE LET shorter == SeqsUpTo(S, n - 1)
         IN  shorter \cup {Append(s, x) : s \in {t \in shorter : Len(t) = n - 1}, x \in S}

Range(s) == {s[i] : i \in 1..Len(s)}

\* the type_mappings dictionaries an endpoint is decorated with: a dictionary
\* over some of the media types, each value a schema name or '' (no schema)
MappingsOver(types, names) ==
    UNION {[ks -> names] : ks \in SUBSET types}

(***************************************************************************)
(* The state.                                                              *)
(***************************************************************************)
VARIABLES
    base_url,        \* HyperMedia.base_url
    files,           \* the files <schema_path>/<name>.json
    clock_keys,      \* repoze.lru LRUCache.clock_keys of load_schema's cache
    clock_refs,      \* LRUCache.clock_refs
    hand,            \* LRUCache.hand (1-based here)
    data,            \* LRUCache.data: key -> [pos, val]
    evicted,         \* history: an entry has been dropped from the cache
    recency,         \* history: the cached keys, least recently used first
    readKeys,        \* history: keys whose file was read before any eviction
    loadedKeys,      \* history: keys a load read and parsed before any eviction
    schema_view,     \* register_schema_api has added the 'schemas' endpoint
    error_handlers,  \* register_error_handlers has been called
    req,             \* the request (and endpoint) handled last
    resp,            \* the response to it
    events           \* what the wrapper did for it, in order

vars == <<base_url, files, clock_keys, clock_refs, hand, data, evicted, recency,
          readKeys, loadedKeys, schema_view, error_handlers, req, resp, events>>

storeVars == <<files, clock_keys, clock_refs, hand, data, evicted, recency, readKeys,
               loadedKeys>>

(***************************************************************************)
(* Outcomes of a view function, and what Flask makes of them.              *)
(***************************************************************************)
Returned(r) == [kind |-> "return", response |-> r]
Raised(e) == [kind |-> "raise", exc |-> e]

\* werkzeug's HTTP exceptions carry their status code
HTTPExceptionCode(name) ==
    CASE name = "UnsupportedMediaType" -> 415
      [] name = "NotAcceptable" -> 406
      [] name = "NotFound" -> 404
      [] name = "BadRequestKeyError" -> 400
      [] OTHER -> 0

PlainResponse(status) ==
    [status |-> status, content_type |-> "text/html", link |-> <<>>, body |-> "html"]

\* Flask's dispatch of a view's outcome when no registered error handler applies:
\* a response is sent as it is, an HTTPException becomes its own status code,
\* any other exception becomes 500
DefaultDispatch(outcome) ==
    IF outcome.kind = "return" THEN outcome.response
    ELSE IF HTTPExceptionCode(outcome.exc.type) # 0
         THEN PlainResponse(HTTPExceptionCode(outcome.exc.type))
         ELSE PlainResponse(500)

(***************************************************************************)
(* HyperMedia.produces                                                     *)
(***************************************************************************)
\* OrderedSet(iterable): the elements in order of first occurrence
RECURSIVE OrderedSet(_)
OrderedSet(s) ==
    IF s = <<>> THEN <<>>
    ELSE LET front == OrderedSet(SubSeq(s, 1, Len(s) - 1))
             x == s[Len(s)]
         IN  IF x \in Range(front) THEN front ELSE Append(front, x)

\* OrderedSet.__and__: the elements of the left operand that are in the other
\* one, in the left operand's order
OrderedAndLastFirst(oset, other) ==
    LET kept == SelectSeq(oset, LAMBDA x : x \in other)
    IN  [i \in 1..Len(kept) |-> kept[Len(kept) + 1 - i]]

OrderedAnd(oset, other) ==
    SelectSeq(oset, LAMBDA x : x \in other)

\* the keyword defaults of produces(type_mappings, default=MIME_JSON,
\* set_mimetype=True, strict=False); a keyword is <<>> when the decorator is
\* called without it and <<value>> when it is passed
ProducesDefault(given) ==
    IF given = <<>> THEN MIME_JSON ELSE given[1]

ProducesSetMimetype(given) ==
    IF given = <<>> THEN TRUE ELSE given[1]

ProducesStrict(given) ==
    IF given = <<>> THEN FALSE ELSE given[1]

\* kwargs.setdefault(key, value)
SetDefault(kwargs, key, value) ==
    IF key \in DOMAIN kwargs THEN kwargs
    ELSE [k \in DOMAIN kwargs \cup {key} |-> IF k = key THEN value ELSE kwargs[k]]

\* lines 141-152: the media type negotiated, or NotAcceptable
NegotiateNeverFails(accept, type_mappings, default, strict) ==
    LET requested == OrderedSet(accept)
        supported == OrderedAnd(requested, DOMAIN type_mappings)
    IN  IF Len(requested) = 0 \/ requested[1] = WILDCARD
        THEN [ok |-> TRUE, mimetype |-> default]
        ELSE IF Len(supported) = 0
             THEN [ok |-> TRUE, mimetype |-> default]
             ELSE [ok |-> TRUE, mimetype |-> supported[1]]

Negotiate(accept, type_mappings, default, strict) ==
    LET requested == OrderedSet(accept)
        defined == DOMAIN type_mappings
        supported == OrderedAnd(requested, defined)
    IN  IF Len(requested) = 0 \/ requested[1] = WILDCARD
        THEN [ok |-> TRUE, mimetype |-> default]
        ELSE IF Len(supported) = 0
             THEN IF strict THEN [ok |-> FALSE, exc |-> [type |-> "NotAcceptable"]]
                  ELSE [ok |-> TRUE, mimetype |-> default]
             ELSE [ok |-> TRUE, mimetype |-> supported[1]]

\* url_for('.schemas', schema_id=..., _external=True): the URL of the schema
\* resource under the request's root, when the endpoint exists
UrlForSchemas(url_root, schema_id) == url_root \o <<"schemas/", schema_id>>

\* '<%s#>; rel="describedBy"' % url
LinkHeader(url) == [href |-> Append(url, "#"), rel |-> "describedBy"]

\* lines 140-163: the wrapper around a view fn that returns handler_response.
\* The result is the outcome, the media type negotiated (the local mimetype)
\* and the keyword arguments of each call of fn.
ProducesWrapper(accept, type_mappings, default, set_mimetype, strict, kwargs, url_root, endpoint_exists, handler_response) ==
    LET neg == Negotiate(accept, type_mappings, default, strict)
    IN  IF ~neg.ok
        THEN [outcome |-> Raised(neg.exc), selected |-> <<>>, calls |-> <<>>]
        ELSE
        LET mimetype == neg.mimetype
            fn_kwargs == SetDefault(kwargs, "accept_mimetype", mimetype)
            made == handler_response
            typed == IF set_mimetype THEN [made EXCEPT !.content_type = mimetype]
                     ELSE made
            after(outcome) ==
                [outcome |-> outcome, selected |-> <<mimetype>>, calls |-> <<fn_kwargs>>]
        IN  IF mimetype \notin DOMAIN type_mappings
            THEN after(Raised([type |-> "KeyError"]))
            ELSE LET hyperschema == type_mappings[mimetype]
                 IN  IF hyperschema = ""
                     THEN after(Returned(typed))
                     ELSE IF ~endpoint_exists
                          THEN after(Raised([type |-> "BuildError"]))
                          ELSE after(Returned([typed EXCEPT !.link =
                                   <<LinkHeader(UrlForSchemas(url_root, hyperschema))>>]))

(***************************************************************************)
(* The schema files and HyperMedia._load_schema.                           *)
(***************************************************************************)
SchemaNames == {SCHEMA_TEST, "schema-other"}

\* what a file <schema_path>/<name>.json can hold: text that is no JSON, the
\* schema {}, a schema of objects whose id is "${base_url}/object#", and a
\* document that is no schema ({"type": 12})
Absent == "<no file>"
NotJson == "{not json"
EmptySchemaText == "{}"
ObjectSchemaText == "{\"id\": \"${base_url}/object#\", \"type\": \"object\"}"
BadSchemaText == "{\"type\": 12}"

FileTexts == {NotJson, EmptySchemaText, ObjectSchemaText, BadSchemaText}

\* the parsed documents
EmptySchema == [doc |-> "{}"]
ObjectSchema(base) == [doc |-> "object", id |-> base \o <<"/object#">>]
BadSchema == [doc |-> "type: 12"]

\* Python's truth value of a string or None (<<>> stands for '' and None) and
\* of a parsed document (an empty dict is false)
TruthyStr(x) == x # <<>>
TruthyDoc(d) == d # EmptySchema

\* a or b, of strings
Or(a, b) == IF TruthyStr(a) THEN a ELSE b

\* file.read().replace('${base_url}', base) followed by json.loads
Parse(text, base) ==
    CASE text = NotJson -> [ok |-> FALSE, exc |-> [type |-> "ValueError"]]
      [] text = EmptySchemaText -> [ok |-> TRUE, val |-> EmptySchema]
      [] text = ObjectSchemaText -> [ok |-> TRUE, val |-> ObjectSchema(base)]
      [] text = BadSchemaText -> [ok |-> TRUE, val |-> BadSchema]

\* url_root[:-1]
StripLast(s) == SubSeq(s, 1, Len(s) - 1)

\* lines 65-69: the undecorated load_schema(base_url, schema_name)
ReadSchema(base, schema_name) ==
    IF files[schema_name] = Absent
    THEN [ok |-> FALSE, read |-> FALSE, exc |-> [type |-> "FileNotFoundError"]]
    ELSE IF ~TruthyStr(Or(base, base_url))
         THEN [ok |-> FALSE, read |-> TRUE, exc |-> [type |-> "TypeError"]]
         ELSE LET parsed == Parse(files[schema_name], Or(base, base_url))
              IN  IF parsed.ok
                  THEN [ok |-> TRUE, read |-> TRUE, val |-> parsed.val]
                  ELSE [ok |-> FALSE, read |-> TRUE, exc |-> parsed.exc]

\* repoze.lru LRUCache.put, for a key that is not cached: the clock hand
\* passes over the referenced slots, clearing their bits, and stops at the
\* first slot that is not referenced
RECURSIVE ClockSweep(_, _)
ClockSweep(refs, h) ==
    IF refs[h]
    THEN ClockSweep([refs EXCEPT ![h] = FALSE], IF h + 1 > Len(refs) THEN 1 ELSE h + 1)
    ELSE [refs |-> refs, pos |-> h]

\* the cache after put(key, val): the key of the slot the hand stopped at is
\* dropped, key takes the slot, referenced, and the hand moves on
CachePut(key, val) ==
    LET swept == ClockSweep(clock_refs, hand)
        pos == swept.pos
        oldkey == clock_keys[pos]
    IN  [keys |-> [clock_keys EXCEPT ![pos] = key],
         refs |-> [swept.refs EXCEPT ![pos] = TRUE],
         hand |-> IF pos + 1 > CacheSize THEN 1 ELSE pos + 1,
         data |-> [k \in (DOMAIN data \ {oldkey}) \cup {key} |->
                      IF k = key THEN [pos |-> pos, val |-> val] ELSE data[k]],
         dropped |-> IF oldkey \in DOMAIN data THEN <<oldkey>> ELSE <<>>]

\* the cache after get(key) found the key: its slot is referenced
CacheHit(key) ==
    [keys |-> clock_keys,
     refs |-> [clock_refs EXCEPT ![data[key].pos] = TRUE],
     hand |-> hand,
     data |-> data,
     dropped |-> <<>>]

CacheAsIs ==
    [keys |-> clock_keys, refs |-> clock_refs, hand |-> hand, data |-> data,
     dropped |-> <<>>]

\* lines 57-70: load_schema(base_url, schema_name) behind lru_cache: the value
\* cached for (base_url, schema_name), else the file's, which is cached when
\* reading and parsing it raised nothing
LoadSchemaUncached(base, schema_name) ==
    LET key == <<base, schema_name>>
        got == ReadSchema(base, schema_name)
    IN  IF got.ok
        THEN [ok |-> TRUE, val |-> got.val, hit |-> FALSE, read |-> got.read,
              key |-> key, cache |-> CacheAsIs]
        ELSE [ok |-> FALSE, exc |-> got.exc, hit |-> FALSE, read |-> got.read,
              key |-> key, cache |-> CacheAsIs]

LoadSchema(base, schema_name) ==
    LET key == <<base, schema_name>>
    IN  IF key \in DOMAIN data
        THEN [ok |-> TRUE, val |-> data[key].val, hit |-> TRUE, read |-> FALSE,
              key |-> key, cache |-> CacheHit(key)]
        ELSE LET got == ReadSchema(base, schema_name)
             IN  IF got.ok
                 THEN [ok |-> TRUE, val |-> got.val, hit |-> FALSE, read |-> got.read,
                       key |-> key, cache |-> CachePut(key, got.val)]
                 ELSE [ok |-> FALSE, exc |-> got.exc, hit |-> FALSE, read |-> got.read,
                       key |-> key, cache |-> CacheAsIs]

\* what a call of load_schema leaves in the events: the lookup and, on a miss,
\* the file access
LoadEvents(l) ==
    <<[ev |-> "load", key |-> l.key, hit |-> l.hit, read |-> l.read,
       dropped |-> l.cache.dropped]>>

\* the cache and its history after a call of load_schema
ApplyLoad(l) ==
    LET nowEvicted == evicted \/ l.cache.dropped # <<>>
        kept == SelectSeq(recency, LAMBDA k : k # l.key /\ <<k>> # l.cache.dropped)
    IN  /\ clock_keys' = l.cache.keys
        /\ clock_refs' = l.cache.refs
        /\ hand' = l.cache.hand
        /\ data' = l.cache.data
        /\ evicted' = nowEvicted
        /\ recency' = IF l.ok THEN Append(kept, l.key) ELSE recency
        /\ readKeys' = IF nowEvicted THEN {}
                       ELSE IF l.read THEN readKeys \cup {l.key} ELSE readKeys
        /\ loadedKeys' = IF nowEvicted THEN {}
                         ELSE IF l.read /\ l.ok THEN loadedKeys \cup {l.key}
                         ELSE loadedKeys

(***************************************************************************)
(* The error handlers (register_error_handlers).                           *)
(***************************************************************************)
\* an element of error.schema_path: jsonschema names a keyword by a string and
\* a position in a list of subschemas (allOf, anyOf, items) by an integer
StrItem(s) == <<"str", s>>
IntItem(i) == <<"int", i>>

\* error.schema when the error was raised without one
Unset == [doc |-> "<unset>"]

\* '/'.join(items): the items, when each of them is a string
Join(items) ==
    IF \A i \in 1..Len(items) : items[i][1] = "str"
    THEN [ok |-> TRUE, val |-> [i \in 1..Len(items) |-> items[i][2]]]
    ELSE [ok |-> FALSE, exc |-> [type |-> "TypeError"]]

\* lines 231-235
GetErrorDetails(error) ==
    LET path == Join(error.schema_path)
    IN  IF path.ok
        THEN [ok |-> TRUE, val |-> [schema |-> error.schema, schema_path |-> path.val]]
        ELSE [ok |-> FALSE, exc |-> path.exc]

\* what the handlers are told about the request and the exception
RequestInfo(r) == [path |-> "/", url |-> r.url_root, method |-> r.method]

\* traceback.format_exc(): never empty
FormatExc(error) == <<"Traceback (most recent call last):", error.type>>

\* lines 217-228: flask.jsonify of the error record, and the status; jsonify
\* raises on a value json cannot serialise
AsFlaskError(r, error, message, details, traceback, status, code) ==
    IF details.schema = Unset
    THEN Raised([type |-> "TypeError"])
    ELSE Returned([status |-> status, content_type |-> MIME_JSON, link |-> <<>>,
                   body |-> [path |-> RequestInfo(r).path, url |-> RequestInfo(r).url,
                             method |-> RequestInfo(r).method,
                             message |-> IF message # "" THEN message ELSE error.type,
                             details |-> details, traceback |-> traceback,
                             status |-> status, code |-> code]])

\* lines 196-203
ValidationErrorHandler(r, error) ==
    LET details == GetErrorDetails(error)
    IN  IF ~details.ok THEN Raised(details.exc)
        ELSE AsFlaskError(r, error, error.message, details.val, <<>>, 400, "VALIDATION")

\* lines 205-213
SchemaErrorHandler(r, error) ==
    LET details == GetErrorDetails(error)
    IN  IF ~details.ok THEN Raised(details.exc)
        ELSE AsFlaskError(r, error, error.message, details.val, FormatExc(error),
                          500, "SCHEMA_ERROR")

\* Flask's dispatch of a view's outcome: a registered handler answers the
\* exception of its class, and an exception the handler raises is answered
\* like any unhandled one
Dispatch(r, outcome, handlers) ==
    IF outcome.kind = "raise" /\ handlers /\ outcome.exc.type = "ValidationError"
    THEN DefaultDispatch(ValidationErrorHandler(r, outcome.exc))
    ELSE IF outcome.kind = "raise" /\ handlers /\ outcome.exc.type = "SchemaError"
         THEN DefaultDispatch(SchemaErrorHandler(r, outcome.exc))
         ELSE DefaultDispatch(outcome)

(***************************************************************************)
(* HyperMedia.consumes                                                     *)
(***************************************************************************)
\* request bodies: nothing, a JSON object (with and without white space
\* around it), a JSON array
EmptyBody == ""
ObjectBody == "{\"key\": \"value\"}"
PaddedObjectBody == " {\"key\": \"value\"}\n"
ArrayBody == "[1]"

Bodies == {EmptyBody, ObjectBody, PaddedObjectBody, ArrayBody}

JsonObject == [json |-> "object", members |-> <<"key", "value">>]
JsonArray == [json |-> "array", members |-> <<"1">>]
\* a string, such as the value of a variable of the URL rule
JsonString(x) == [json |-> "string", members |-> <<x>>]

\* json.loads(text)
JsonLoads(text) ==
    CASE text \in {ObjectBody, PaddedObjectBody} -> [ok |-> TRUE, val |-> JsonObject]
      [] text = ArrayBody -> [ok |-> TRUE, val |-> JsonArray]
      [] OTHER -> [ok |-> FALSE, exc |-> [type |-> "ValueError"]]

\* str.lower() of a media type; request.mimetype is in lower case already
Lower(mimetype) ==
    CASE mimetype = "Application/X-WWW-Form-Urlencoded" -> MIME_FORM_URL_ENC
      [] OTHER -> mimetype

\* jsonschema.validate(data, schema): the schema is checked first, then the
\* instance
Validate(instance, schema) ==
    CASE schema = BadSchema ->
            [ok |-> FALSE,
             exc |-> [type |-> "SchemaError", message |-> "12 is not valid",
                      schema |-> schema, schema_path |-> <<StrItem("type")>>]]
      [] schema = EmptySchema -> [ok |-> TRUE]
      [] OTHER ->
            IF instance.json = "object" THEN [ok |-> TRUE]
            ELSE [ok |-> FALSE,
                  exc |-> [type |-> "ValidationError", message |-> "is not of type object",
                           schema |-> schema, schema_path |-> <<StrItem("type")>>]]

\* the view of the tests: Response(json.dumps(request_data),
\* mimetype=request_mimetype)
EchoView(kwargs) ==
    [status |-> 200, content_type |-> kwargs.request_mimetype, link |-> <<>>,
     body |-> kwargs.request_data]

\* lines 98-102: the payload decoded
Decode(r) ==
    IF Lower(r.mimetype) = MIME_FORM_URL_ENC
    THEN IF r.form = <<>>
         THEN [ok |-> FALSE, exc |-> [type |-> "BadRequestKeyError"]]
         ELSE LET loaded == JsonLoads(r.form[1])
              IN  IF loaded.ok THEN [ok |-> TRUE, source |-> "form", val |-> loaded.val]
                  ELSE [ok |-> FALSE, exc |-> loaded.exc]
    ELSE LET loaded == JsonLoads(r.data)
         IN  IF loaded.ok THEN [ok |-> TRUE, source |-> "data", val |-> loaded.val]
             ELSE [ok |-> FALSE, exc |-> loaded.exc]

\* lines 95-111: the wrapper around the view, for the request r on an endpoint
\* decorated with consumes(type_mappings). The result is the outcome, what was
\* done in order, and the calls of load_schema.
ConsumesWrapperNoTypeCheck(r, type_mappings, kwargs) ==
    LET decoded == Decode(r)
        fn_kwargs == SetDefault(SetDefault(kwargs, "request_mimetype", r.mimetype),
                                "request_data", decoded.val)
    IN  IF ~decoded.ok
        THEN [outcome |-> Raised(decoded.exc), events |-> <<>>, loads |-> <<>>]
        ELSE [outcome |-> Returned(EchoView(fn_kwargs)),
              events |-> <<[ev |-> "decode", source |-> decoded.source, val |-> decoded.val],
                           [ev |-> "call", kwargs |-> fn_kwargs]>>,
              loads |-> <<>>]

ConsumesWrapperNoValidation(r, type_mappings, kwargs) ==
    IF r.mimetype \notin DOMAIN type_mappings
    THEN [outcome |-> Raised([type |-> "UnsupportedMediaType"]), events |-> <<>>,
          loads |-> <<>>]
    ELSE ConsumesWrapperNoTypeCheck(r, type_mappings, kwargs)

ConsumesWrapper(r, type_mappings, kwargs) ==
    IF r.mimetype \notin DOMAIN type_mappings
    THEN [outcome |-> Raised([type |-> "UnsupportedMediaType"]), events |-> <<>>,
          loads |-> <<>>]
    ELSE
    LET decoded == Decode(r)
    IN  IF ~decoded.ok
        THEN [outcome |-> Raised(decoded.exc), events |-> <<>>, loads |-> <<>>]
        ELSE
        LET data_ == decoded.val
            did_decode == <<[ev |-> "decode", source |-> decoded.source, val |-> data_]>>
            schema_name == type_mappings[r.mimetype]
            fn_kwargs == SetDefault(SetDefault(kwargs, "request_mimetype", r.mimetype),
                                    "request_data", data_)
            did_call == <<[ev |-> "call", kwargs |-> fn_kwargs]>>
        IN  IF schema_name = ""
            THEN [outcome |-> Returned(EchoView(fn_kwargs)),
                  events |-> did_decode \o did_call, loads |-> <<>>]
            ELSE
            LET l == LoadSchema(Or(base_url, StripLast(r.url_root)), schema_name)
            IN  IF ~l.ok
                THEN [outcome |-> Raised(l.exc),
                      events |-> did_decode \o LoadEvents(l), loads |-> <<l>>]
                ELSE
                LET valid == Validate(data_, l.val)
                    did_validate == <<[ev |-> "validate", instance |-> data_,
                                       schema |-> l.val, ok |-> valid.ok]>>
                IN  IF ~valid.ok
                    THEN [outcome |-> Raised(valid.exc),
                          events |-> did_decode \o LoadEvents(l) \o did_validate,
                          loads |-> <<l>>]
                    ELSE [outcome |-> Returned(EchoView(fn_kwargs)),
                          events |-> did_decode \o LoadEvents(l) \o did_validate
                                     \o did_call,
                          loads |-> <<l>>]

(***************************************************************************)
(* SchemaApi.get                                                           *)
(***************************************************************************)
\* lines 255-260: GET <schema_uri>/<schema_id>
SchemaApiGet(r, schema_id) ==
    LET l == LoadSchema(StripLast(r.url_root), schema_id)
    IN  IF ~l.ok
        THEN [outcome |-> Raised(l.exc), events |-> LoadEvents(l), loads |-> <<l>>]
        ELSE IF ~TruthyDoc(l.val)
             THEN [outcome |-> Raised([type |-> "NotFound"]), events |-> LoadEvents(l),
                   loads |-> <<l>>]
             ELSE [outcome |-> Returned([status |-> 200, content_type |-> MIME_JSON,
                                         link |-> <<>>, body |-> l.val]),
                   events |-> LoadEvents(l), loads |-> <<l>>]

(***************************************************************************)
(* Initial state and actions.                                              *)
(***************************************************************************)
\* request.url_root of the hosts the application is reached under
LocalRoot == <<"http://localhost", "/">>
UrlRoots == {LocalRoot, <<"http://example.org", "/">>}

\* the base_url the HyperMedia object is constructed with (<<>>: None)
BaseUrls == {<<>>, <<"http://schemas.example">>}

NoRequest == [op |-> "none"]

Init ==
    /\ base_url \in BaseUrls
    /\ files = [n \in SchemaNames |-> Absent]
    /\ clock_keys = [i \in 1..CacheSize |-> <<>>]
    /\ clock_refs = [i \in 1..CacheSize |-> FALSE]
    /\ hand = 1
    /\ data = <<>>
    /\ evicted = FALSE
    /\ recency = <<>>
    /\ readKeys = {}
    /\ loadedKeys = {}
    /\ schema_view = FALSE
    /\ error_handlers = FALSE
    /\ req = NoRequest
    /\ resp = PlainResponse(0)
    /\ events = <<>>

\* register_schema_api(flask_app): the endpoint 'schemas' exists from now on
RegisterSchemaApi ==
    /\ req = NoRequest
    /\ ~schema_view
    /\ schema_view' = TRUE
    /\ UNCHANGED <<base_url, storeVars, error_handlers, req, resp, events>>

\* what the endpoints under test are decorated with
ProducesMappings == MappingsOver({MIME_TEST, MIME_JSON}, {"", SCHEMA_TEST})

\* the response of the wrapped view: Response('')
ViewResponse == [status |-> 200, content_type |-> "text/html", link |-> <<>>, body |-> ""]

\* a GET of an endpoint decorated with produces(type_mappings, ...)
ProducesRequest ==
    /\ req = NoRequest
    /\ \E accept \in SeqsUpTo(AcceptValues, MaxAccept),
          type_mappings \in ProducesMappings,
          default \in {<<>>, <<MIME_TEST>>, <<MIME_JSON>>},
          set_mimetype \in {<<>>, <<FALSE>>},
          strict \in {<<>>, <<TRUE>>, <<FALSE>>},
          kwargs \in {<<>>, [accept_mimetype |-> MIME_UNSUPPORTED]},
          url_root \in UrlRoots :
           LET r == ProducesWrapper(accept, type_mappings, ProducesDefault(default),
                                    ProducesSetMimetype(set_mimetype),
                                    ProducesStrict(strict), kwargs, url_root,
                                    schema_view, ViewResponse)
           IN  /\ req' = [op |-> "produces", accept |-> accept,
                          type_mappings |-> type_mappings, default |-> default,
                          set_mimetype |-> set_mimetype, strict |-> strict,
                          kwargs |-> kwargs, url_root |-> url_root]
               /\ resp' = DefaultDispatch(r.outcome)
               /\ events' = [i \in 1..Len(r.selected) |->
                                 [ev |-> "negotiated", mimetype |-> r.selected[i]]]
                             \o [i \in 1..Len(r.calls) |->
                                 [ev |-> "call", kwargs |-> r.calls[i]]]
               /\ UNCHANGED <<base_url, storeVars, schema_view, error_handlers>>

\* the response has been sent and the request context is popped: the
\* application waits for the next request
Finish ==
    /\ req # NoRequest
    /\ req' = NoRequest
    /\ resp' = PlainResponse(0)
    /\ events' = <<>>
    /\ UNCHANGED <<base_url, storeVars, schema_view, error_handlers>>

\* the directory of schemas changes: one of the files is written, replaced
\* or removed
WriteFileAmong(names, texts) ==
    /\ req = NoRequest
    /\ \E n \in names, text \in texts :
          /\ files[n] # text
          /\ files' = [files EXCEPT ![n] = text]
    /\ UNCHANGED <<base_url, clock_keys, clock_refs, hand, data, evicted, recency,
                   readKeys, loadedKeys, schema_view, error_handlers, req, resp, events>>

WriteFile == WriteFileAmong(SchemaNames, {Absent, NotJson, EmptySchemaText, ObjectSchemaText})

\* some code of the application calls hypermedia.load_schema(base, name)
LoadSchemaCall ==
    /\ req = NoRequest
    /\ \E root \in UrlRoots, n \in SchemaNames :
          LET l == LoadSchema(StripLast(root), n)
          IN  /\ req' = [op |-> "load_schema", key |-> l.key]
              /\ resp' = IF l.ok THEN [status |-> 200, content_type |-> MIME_JSON,
                                       link |-> <<>>, body |-> l.val]
                         ELSE DefaultDispatch(Raised(l.exc))
              /\ events' = LoadEvents(l)
              /\ ApplyLoad(l)
              /\ UNCHANGED <<base_url, files, schema_view, error_handlers>>

\* the cache and its history after the calls of load_schema a request made
ApplyLoads(loads) ==
    IF loads = <<>>
    THEN UNCHANGED <<clock_keys, clock_refs, hand, data, evicted, recency, readKeys,
                     loadedKeys>>
    ELSE ApplyLoad(loads[1])

WriteTestSchema == WriteFileAmong({SCHEMA_TEST}, FileTexts \cup {Absent})

\* the requests a client sends to an endpoint that consumes: the body is the
\* form when the content type is that of forms, request.data otherwise
ConsumesRequests ==
    {[method |-> "POST", url_root |-> LocalRoot, mimetype |-> m, data |-> d, form |-> <<>>] :
        m \in {MIME_TEST, MIME_UNSUPPORTED}, d \in Bodies}
    \cup
    {[method |-> "POST", url_root |-> LocalRoot, mimetype |-> MIME_FORM_URL_ENC,
      data |-> EmptyBody, form |-> f] :
        f \in {<<>>} \cup {<<d>> : d \in Bodies \ {PaddedObjectBody}}}

ConsumesMappings == MappingsOver({MIME_TEST, MIME_FORM_URL_ENC}, {"", SCHEMA_TEST})

\* the keyword arguments Flask calls the wrapper with: the variables of the
\* URL rule
ViewArgs == {<<>>, [request_data |-> JsonString("from-url")],
             [request_mimetype |-> "from-url"]}

\* a POST to an endpoint decorated with consumes(type_mappings)
ConsumesRequest ==
    /\ req = NoRequest
    /\ \E r \in ConsumesRequests, type_mappings \in ConsumesMappings,
          kwargs \in ViewArgs :
           LET w == ConsumesWrapper(r, type_mappings, kwargs)
           IN  /\ req' = [op |-> "consumes", request |-> r,
                          type_mappings |-> type_mappings, kwargs |-> kwargs]
               /\ resp' = Dispatch(r, w.outcome, error_handlers)
               /\ events' = w.events
               /\ ApplyLoads(w.loads)
               /\ UNCHANGED <<base_url, files, schema_view, error_handlers>>

\* GET /schemas/<schema_id>, once register_schema_api has added the rule
GetSchemaRequest ==
    /\ req = NoRequest
    /\ schema_view
    /\ \E schema_id \in {SCHEMA_TEST} :
           LET r == [method |-> "GET", url_root |-> LocalRoot]
               w == SchemaApiGet(r, schema_id)
           IN  /\ req' = [op |-> "get_schema", request |-> r, schema_id |-> schema_id]
               /\ resp' = Dispatch(r, w.outcome, error_handlers)
               /\ events' = w.events
               /\ ApplyLoads(w.loads)
               /\ UNCHANGED <<base_url, files, schema_view, error_handlers>>

NextStore ==
    RegisterSchemaApi \/ WriteTestSchema \/ ConsumesRequest \/ GetSchemaRequest \/ Finish

SpecStore == Init /\ [][NextStore]_vars

\* register_error_handlers(flask_app)
RegisterErrorHandlers ==
    /\ req = NoRequest
    /\ ~error_handlers
    /\ error_handlers' = TRUE
    /\ UNCHANGED <<base_url, storeVars, schema_view, req, resp, events>>

\* the schema of the tests' errors
MOCK_SCHEMA == [doc |-> "object", id |-> <<"mock">>]

\* error.schema_path as jsonschema builds it: a keyword of the schema, a
\* keyword under 'properties', a keyword of a subschema of allOf; and as the
\* tests pass it, a string
SchemaPaths ==
    {<<StrItem("type")>>,
     <<StrItem("properties"), StrItem("mock"), StrItem("type")>>,
     <<StrItem("allOf"), IntItem("0"), StrItem("type")>>,
     <<StrItem("/"), StrItem("p"), StrItem("r")>>}

\* the exceptions a view raises
ViewErrors ==
    {[type |-> t, message |-> m, schema |-> sc, schema_path |-> sp] :
        t \in {"ValidationError", "SchemaError"}, m \in {"", "Mock Message"},
        sc \in {MOCK_SCHEMA, Unset}, sp \in SchemaPaths}
    \cup {[type |-> "ValueError"]}

\* a request to a view that raises error
RaisingRequest ==
    /\ req = NoRequest
    /\ \E error \in ViewErrors, root \in UrlRoots, method \in {"GET", "POST"} :
           LET r == [method |-> method, url_root |-> root]
           IN  /\ req' = [op |-> "raise", request |-> r, error |-> error]
               /\ resp' = Dispatch(r, Raised(error), error_handlers)
               /\ events' = <<>>
               /\ UNCHANGED <<base_url, storeVars, schema_view, error_handlers>>

NextErrors == RegisterErrorHandlers \/ RaisingRequest \/ Finish

SpecErrors == Init /\ [][NextErrors]_vars

\* an application with the error handlers and the schema resource registered,
\* serving endpoints that consume
NextFailures ==
    \/ RegisterErrorHandlers
    \/ RegisterSchemaApi
    \/ WriteTestSchema
    \/ ConsumesRequest
    \/ GetSchemaRequest
    \/ Finish

SpecFailures == Init /\ [][NextFailures]_vars


NextCache == WriteFile \/ LoadSchemaCall \/ Finish

SpecCache == Init /\ [][NextCache]_vars

NextProduces == RegisterSchemaApi \/ ProducesRequest \/ Finish

SpecProduces == Init /\ [][NextProduces]_vars

Next == NextProduces \/ NextStore \/ NextCache \/ NextErrors

Spec == Init /\ [][Next]_vars

(***************************************************************************)
(* Properties of produces.                                                 *)
(***************************************************************************)
IsProduces == req.op = "produces"

\* the media type the wrapper negotiated for the request handled last
Selected == SelectSeq(events, LAMBDA e : e.ev = "negotiated")

\* positions of the accept list that name a key of the offered mapping
Offered(accept, type_mappings) ==
    {i \in 1..Len(accept) : accept[i] \in DOMAIN type_mappings}

FirstOffered(accept, type_mappings) ==
    accept[CHOOSE i \in Offered(accept, type_mappings) :
               \A j \in Offered(accept, type_mappings) : i <= j]

DefaultApplies(accept) == accept = <<>> \/ accept[1] = WILDCARD

\* C1: whenever negotiation does not fail, the media type selected is the
\* default if the accept list is empty or starts with '*/*', else the first
\* element of the accept list that is a key of the offered mapping, else the
\* default.
C1_SelectedMediaType ==
    (IsProduces /\ Selected # <<>>) =>
        Selected[1].mimetype =
            IF DefaultApplies(req.accept) THEN ProducesDefault(req.default)
            ELSE IF Offered(req.accept, req.type_mappings) # {}
                 THEN FirstOffered(req.accept, req.type_mappings)
                 ELSE ProducesDefault(req.default)

\* two offered types are accepted, after one that is not offered, and the one
\* the client named first was selected
C1_Witness ==
    /\ IsProduces
    /\ req.accept = <<MIME_UNSUPPORTED, MIME_JSON, MIME_TEST>>
    /\ DOMAIN req.type_mappings = {MIME_TEST, MIME_JSON}
    /\ req.default = <<MIME_TEST>>
    /\ Selected # <<>> /\ Selected[1].mimetype = MIME_JSON

NothingOffered(accept, type_mappings) ==
    /\ accept # <<>>
    /\ accept[1] # WILDCARD
    /\ Offered(accept, type_mappings) = {}

\* C2: negotiation fails with NotAcceptable (406) exactly when the accept list
\* is non-empty, does not start with '*/*', names no key of the offered mapping
\* and strict is true; with strict false the same accept list selects the
\* default media type.
C2_NotAcceptableExactly ==
    IsProduces =>
        /\ resp.status = 406 <=>
              (NothingOffered(req.accept, req.type_mappings) /\ req.strict = <<TRUE>>)
        /\ (NothingOffered(req.accept, req.type_mappings) /\ req.strict = <<FALSE>>) =>
              /\ Selected # <<>>
              /\ Selected[1].mimetype = ProducesDefault(req.default)
        /\ resp.status = 406 => Selected = <<>> /\ events = <<>>

C2_Witness ==
    /\ IsProduces
    /\ req.accept = <<MIME_UNSUPPORTED>>
    /\ MIME_TEST \in DOMAIN req.type_mappings
    /\ req.strict = <<TRUE>>
    /\ resp.status = 406

\* C3: every negotiation that selects a media type yields a response, with the
\* Link header of the schema the mapping names for the selected type, and
\* without a Link header when the mapping has no entry for it or names no
\* schema (the schema resource being registered).
C3_AlwaysAResponse ==
    (IsProduces /\ schema_view /\ Selected # <<>>) =>
        LET mimetype == Selected[1].mimetype
            named == /\ mimetype \in DOMAIN req.type_mappings
                     /\ req.type_mappings[mimetype] # ""
        IN  /\ resp.status = 200
            /\ named => resp.link = <<LinkHeader(UrlForSchemas(req.url_root,
                                         req.type_mappings[mimetype]))>>
            /\ ~named => resp.link = <<>>

\* C4: an endpoint decorated with produces(type_mappings, default=...) and no
\* strict answers 406 when the Accept header names only media types that are
\* not keys of type_mappings.
C4_UnsupportedIs406 ==
    ( /\ IsProduces
      /\ schema_view
      /\ req.strict = <<>>
      /\ req.default # <<>>
      /\ ProducesDefault(req.default) \in DOMAIN req.type_mappings
      /\ req.accept # <<>>
      /\ WILDCARD \notin Range(req.accept)
      /\ Offered(req.accept, req.type_mappings) = {} )
    => resp.status = 406

(***************************************************************************)
(* Properties of the schema cache.                                         *)
(***************************************************************************)
IsLoad == req.op = "load_schema"

\* C8 as stated: as long as nothing was evicted, the file of a key is read at
\* most once, and a load of a key that is cached reads no file and returns the
\* content cached by the first load, whatever the file holds by then.
C8_ReadAtMostOnce ==
    [][ (IsLoad' /\ ~evicted') =>
            /\ events'[1].read => req'.key \notin readKeys
            /\ req'.key \in DOMAIN data =>
                  ~events'[1].read /\ resp'.status = 200 /\ resp'.body = data[req'.key].val
      ]_vars

\* C8 amended: as long as nothing was evicted, at most one load of a key reads
\* its file and returns (a load that raises caches nothing and the next load
\* of the key reads the file again); every load after that one reads no file
\* and returns the content that load returned, whatever the file holds by then.
C8_SuccessfulReadOnce ==
    [][ (IsLoad' /\ ~evicted') =>
            LET key == req'.key
                read == events'[1].read
                ok == resp'.status = 200
            IN  /\ (read /\ ok) => key \notin loadedKeys
                /\ key \in loadedKeys =>
                      /\ key \in DOMAIN data
                      /\ ~read /\ ok /\ resp'.body = data[key].val
                /\ (read /\ ok) => (key \in DOMAIN data' /\ data'[key].val = resp'.body)
                /\ (read /\ ~ok) => (key \notin DOMAIN data' /\ key \notin loadedKeys')
                /\ \A k \in DOMAIN data :
                      k \in DOMAIN data' /\ data'[k].val = data[k].val
      ]_vars

\* a load was served from the cache, nothing was evicted so far, and the file
\* no longer holds what was cached
C8_Witness ==
    /\ IsLoad
    /\ ~evicted
    /\ events[1].hit /\ ~events[1].read
    /\ resp.status = 200 /\ resp.body = ObjectSchema(req.key[1])
    /\ files[req.key[2]] = NotJson

\* C9: the cache holds at most schema_cache_size entries, each under its own
\* (base_url, schema_name) key, and the entry a load of a new key drops is the
\* least recently used one; the dropped key is read from its file again, the
\* keys that stayed are served without a file read.
C9_DropsLeastRecentlyUsed ==
    /\ [](Cardinality(DOMAIN data) <= CacheSize)
    /\ [][ IsLoad' =>
            /\ events'[1].dropped # <<>> =>
                  /\ events'[1].dropped[1] = Head(recency)
                  /\ events'[1].dropped[1] \notin DOMAIN data'
            /\ req'.key \in DOMAIN data => ~events'[1].read
            /\ req'.key \notin DOMAIN data => ~events'[1].hit
       ]_vars

(***************************************************************************)
(* Properties of consumes.                                                 *)
(***************************************************************************)
IsConsumes == req.op = "consumes"

EventsOf(kind) == SelectSeq(events, LAMBDA e : e.ev = kind)

\* C5: a request whose media type is not a key of the offered mapping is
\* answered 415 whatever its payload; the payload is not decoded, no schema is
\* loaded and the view is not called.
C5_UnsupportedMediaType ==
    (IsConsumes /\ req.request.mimetype \notin DOMAIN req.type_mappings) =>
        /\ resp.status = 415
        /\ events = <<>>

C5_Witness ==
    /\ IsConsumes
    /\ req.request.mimetype = MIME_UNSUPPORTED
    /\ req.request.data = EmptyBody
    /\ MIME_TEST \in DOMAIN req.type_mappings
    /\ resp.status = 415

\* the text the payload of the request is decoded from
PayloadText(r) ==
    IF r.mimetype = MIME_FORM_URL_ENC THEN r.form[1] ELSE r.data

\* the view was called after the media type was found in the mapping, the
\* payload was decoded from its place and, when the mapping names a schema,
\* the schema was loaded and the decoded body validated against it, in this
\* order; with no schema named, nothing was loaded or validated
CalledInOrder ==
    LET r == req.request
        named == req.type_mappings[r.mimetype] # ""
        decode == events[1]
    IN  /\ r.mimetype \in DOMAIN req.type_mappings
        /\ decode.ev = "decode"
        /\ decode.source = IF r.mimetype = MIME_FORM_URL_ENC THEN "form" ELSE "data"
        /\ r.mimetype = MIME_FORM_URL_ENC => r.form # <<>>
        /\ JsonLoads(PayloadText(r)).ok
        /\ decode.val = JsonLoads(PayloadText(r)).val
        /\ named =>
              /\ Len(events) = 4
              /\ events[2].ev = "load"
              /\ events[2].key = <<Or(base_url, StripLast(r.url_root)),
                                   req.type_mappings[r.mimetype]>>
              /\ events[3].ev = "validate"
              /\ events[3].instance = decode.val
              /\ events[3].ok
              /\ events[4].ev = "call"
        /\ ~named =>
              /\ Len(events) = 2
              /\ events[2].ev = "call"

\* C6 as stated: the view is called only in that order, and it receives the
\* decoded body and the declared media type.
C6_CalledWithDecodedBody ==
    (IsConsumes /\ EventsOf("call") # <<>>) =>
        /\ CalledInOrder
        /\ Len(EventsOf("call")) = 1
        /\ EventsOf("call")[1].kwargs.request_data = events[1].val
        /\ EventsOf("call")[1].kwargs.request_mimetype = req.request.mimetype

\* C6 amended: the view is called only in that order; it receives the decoded
\* body as request_data and the declared media type as request_mimetype,
\* except that a keyword argument of that name the wrapper was called with
\* (a variable of the URL rule) is passed on as it is.
C6_CalledAfterValidation ==
    (IsConsumes /\ EventsOf("call") # <<>>) =>
        LET given == req.kwargs
            passed == EventsOf("call")[1].kwargs
        IN  /\ CalledInOrder
            /\ Len(EventsOf("call")) = 1
            /\ DOMAIN passed = DOMAIN given \cup {"request_data", "request_mimetype"}
            /\ passed.request_data =
                  IF "request_data" \in DOMAIN given THEN given.request_data
                  ELSE events[1].val
            /\ passed.request_mimetype =
                  IF "request_mimetype" \in DOMAIN given THEN given.request_mimetype
                  ELSE req.request.mimetype
            /\ resp.status = 200

\* a form was posted to an endpoint whose mapping names a schema, and the view
\* was called with the decoded payload after the validation
C6_Witness ==
    /\ IsConsumes
    /\ req.request.mimetype = MIME_FORM_URL_ENC
    /\ req.request.form = <<ObjectBody>>
    /\ MIME_FORM_URL_ENC \in DOMAIN req.type_mappings
    /\ req.type_mappings[MIME_FORM_URL_ENC] = SCHEMA_TEST
    /\ req.kwargs = <<>>
    /\ Len(events) = 4
    /\ events[3].schema = ObjectSchema(Or(base_url, StripLast(LocalRoot)))
    /\ events[4].kwargs.request_data = JsonObject

(***************************************************************************)
(* Properties of the schema resource.                                      *)
(***************************************************************************)
IsGetSchema == req.op = "get_schema"

\* C7: GET /schemas/{schema_id} answers 200 with the document when a schema of
\* that name exists in the backing store, and 404 when none exists (for a
\* name that is not cached).
C7_NotFoundIs404 ==
    (IsGetSchema /\ ~events[1].hit) =>
        LET text == files[req.schema_id]
        IN  /\ text \in {ObjectSchemaText, BadSchemaText} =>
                  /\ resp.status = 200
                  /\ resp.body = Parse(text, StripLast(req.request.url_root)).val
            /\ text = Absent => resp.status = 404

(***************************************************************************)
(* Properties of the error handlers.                                       *)
(***************************************************************************)
IsRaise == req.op = "raise"

\* C10: with the error handlers registered, a ValidationError raised by the
\* view is answered 400 with a JSON body of code "VALIDATION" and status 400,
\* a SchemaError 500 with a JSON body of code "SCHEMA_ERROR", status 500 and a
\* traceback; the status of the body is that of the response. (Of the errors
\* that carry a schema, as those of jsonschema.validate do.)
C10_ErrorsTranslated ==
    (IsRaise /\ error_handlers /\ req.error.type \in {"ValidationError", "SchemaError"}
             /\ req.error.schema # Unset) =>
        /\ resp.content_type = MIME_JSON
        /\ resp.body.status = resp.status
        /\ req.error.type = "ValidationError" =>
              resp.status = 400 /\ resp.body.code = "VALIDATION"
        /\ req.error.type = "SchemaError" =>
              /\ resp.status = 500 /\ resp.body.code = "SCHEMA_ERROR"
              /\ resp.body.traceback # <<>>

(***************************************************************************)
(* C11: the shape of the failures.                                         *)
(***************************************************************************)
\* the response is the JSON error record of _as_flask_error
IsErrorRecord ==
    /\ resp.content_type = MIME_JSON
    /\ DOMAIN resp.body = {"path", "url", "method", "message", "details", "traceback",
                           "status", "code"}
    /\ resp.body.status = resp.status

\* C11: once the error handlers are registered, every request that fails
\* (a response with status 400 or above: media type not supported, payload
\* that cannot be decoded, validation error, schema error, schema not found)
\* is answered with the JSON error record {path, url, method, message,
\* details, traceback, status, code}, and with nothing else.
C11_FailuresAreErrorRecords ==
    (error_handlers /\ req # NoRequest /\ resp.status >= 400) => IsErrorRecord

\* the handlers do answer a validation error of a consumed payload with the
\* record
C11_RecordReached ==
    /\ error_handlers
    /\ IsConsumes
    /\ resp.status = 400
    /\ IsErrorRecord
    /\ resp.body.code = "VALIDATION"

====
